---- MODULE Spec2Model ----
(***************************************************************************)
(* applyGaussianBlur of image_processor.cpp as a state machine: one call,  *)
(* from the three validation checks through kernel generation, the         *)
(* horizontal pass into temp, the vertical pass into result, to the        *)
(* return.  One step of a pass computes one pixel (the kernelSize taps,    *)
(* the clamp and the three conversions to uint8_t).                        *)
(*                                                                         *)
(* Arithmetic.  A double is modelled as a fixed-point number: the integer  *)
(* d stands for d / Scale.  Every finite double this function computes is  *)
(* non-negative, so the integer NaN (negative) is free to stand for a      *)
(* not-a-number.  Rounding happens where the doubles round visibly: in     *)
(* std::exp and in the normalising division.  uint8_t * weight products    *)
(* and their sums are exact in the model.                                  *)
(***************************************************************************)
EXTENDS Integers, Sequences, FiniteSets, TLC

\* ------------------------------------------------------------------ bounds
MaxRows == 2
MaxCols == 2
MaxKernelSize == 5

\* ------------------------------------------------------- fixed-point doubles
Scale == 20000
NaN == -1
UInt8Range == 256

IsNaN(d) == d = NaN

\* a + b on doubles
FAdd(a, b) == IF IsNaN(a) \/ IsNaN(b) THEN NaN ELSE a + b

\* n * d, n an integer (pixel.r promoted), d a double
FScale(n, d) == IF IsNaN(d) THEN NaN ELSE n * d

\* a / b rounded to the nearest representable value
FDiv(a, b) ==
    IF IsNaN(a) \/ IsNaN(b) THEN NaN
    ELSE IF b = 0 THEN NaN
    ELSE (2 * a * Scale + b) \div (2 * b)

\* ------------------------------------------------------------------- Pixel
Pixel(red, green, blue) == [r |-> red, g |-> green, b |-> blue]

\* Pixel() : r(0), g(0), b(0)
DefaultPixel == Pixel(0, 0, 0)

Palette == {Pixel(0, 0, 0), Pixel(255, 100, 0)}

\* ------------------------------------------------------------------ inputs
\* sigma, in halves: 0 is sigma = 0.0, 1 is sigma = 0.5, 3 is sigma = 1.5
Sigmas == {0, 1, 3}

\* the row lengths of a grid: rows rows of cols entries, and the same with
\* row short one entry shorter (short = 0: no row is)
Shape(rows, cols, short) ==
    [yy \in 1..rows |-> IF yy = short /\ cols > 0 THEN cols - 1 ELSE cols]

Shapes ==
    {Shape(rows, cols, short) :
        rows \in 0..MaxRows, cols \in 0..MaxCols, short \in 0..MaxRows}

\* a grid of the given row lengths, all bg but for fg at row fy, column fx
Image(shape, bg, fg, fy, fx) ==
    [yy \in 1..Len(shape) |->
        [xx \in 1..shape[yy] |-> IF yy = fy /\ xx = fx THEN fg ELSE bg]]

Images ==
    {Image(s, bg, fg, fy, fx) :
        s \in Shapes, bg \in Palette, fg \in Palette,
        fy \in 1..MaxRows, fx \in 1..MaxCols}

\* the widths a caller passes with the grid img: none, the length of its
\* first row, or one more
Widths(img) ==
    LET n == IF Len(img) = 0 THEN 0 ELSE Len(img[1]) IN {0, n, n + 1}

\* the heights a caller passes with the grid img: none, its number of rows,
\* or one more
Heights(img) == {0, Len(img), Len(img) + 1}

VARIABLES
    imageData, width, height, kernelSize, sigma,  \* the arguments
    pc,            \* position in the function body
    what,          \* message of the std::invalid_argument thrown, "" if none
    kernel, sum,   \* the kernel vector and the normalising sum
    temp, result,  \* the two grids the function allocates
    y, x,          \* the loop counters of the running pass
    returned,      \* the grid handed to the caller, <<>> if none
    garbage,       \* what an out-of-range read of imageData yields
    inputReads,    \* number of reads of imageData so far
    tempWritten,   \* cells of temp stored so far
    resultWritten, \* cells of result stored so far
    lastRead,      \* buffer, position and sampled coordinates of the last pixel step
    narrowed,      \* the three doubles last handed to static_cast<uint8_t>
    oob            \* TRUE once imageData was read outside its storage

vars == <<imageData, width, height, kernelSize, sigma, pc, what, kernel, sum,
          temp, result, y, x, returned, garbage, inputReads, tempWritten,
          resultWritten, lastRead, narrowed, oob>>

args == <<imageData, width, height, kernelSize, sigma>>

NoRead == [buf |-> "none", y |-> 0, x |-> 0, samples |-> <<>>]

Init ==
    /\ imageData \in Images
    /\ width \in Widths(imageData)
    /\ height \in Heights(imageData)
    /\ kernelSize \in 1..MaxKernelSize
    /\ sigma \in Sigmas
    /\ pc = "checkKernelSize"
    /\ what = ""
    /\ kernel = <<>>
    /\ sum = 0
    /\ temp = <<>>
    /\ result = <<>>
    /\ y = 0
    /\ x = 0
    /\ returned = <<>>
    /\ garbage = DefaultPixel
    /\ inputReads = 0
    /\ tempWritten = {}
    /\ resultWritten = {}
    /\ lastRead = NoRead
    /\ narrowed = <<>>
    /\ oob = FALSE

\* -------------------------------------------------------------- validation
KernelSizeMessage == "Kernel size must be odd and >= 3"
DimensionsMessage == "Image dimensions must be positive"
EmptyMessage == "Image data cannot be empty"

Throw(message) ==
    /\ what' = message
    /\ pc' = "thrown"

\* if (kernelSize < 3 || kernelSize % 2 == 0) throw
CheckKernelSize ==
    /\ pc = "checkKernelSize"
    /\ IF kernelSize < 3 \/ kernelSize % 2 = 0
       THEN Throw(KernelSizeMessage)
       ELSE pc' = "checkDimensions" /\ what' = what
    /\ UNCHANGED <<args, kernel, sum, temp, result, y, x, returned, garbage,
                   inputReads, tempWritten, resultWritten, lastRead,
                   narrowed, oob>>

\* CheckDimensions throwing the kernel check's exception
CheckDimensionsKernelMessage ==
    /\ pc = "checkDimensions"
    /\ IF width <= 0 \/ height <= 0
       THEN Throw(KernelSizeMessage)
       ELSE pc' = "checkEmpty" /\ what' = what
    /\ UNCHANGED <<args, kernel, sum, temp, result, y, x, returned, garbage,
                   inputReads, tempWritten, resultWritten, lastRead,
                   narrowed, oob>>

\* if (width <= 0 || height <= 0) throw
CheckDimensions ==
    /\ pc = "checkDimensions"
    /\ IF width <= 0 \/ height <= 0
       THEN Throw(DimensionsMessage)
       ELSE pc' = "checkEmpty" /\ what' = what
    /\ UNCHANGED <<args, kernel, sum, temp, result, y, x, returned, garbage,
                   inputReads, tempWritten, resultWritten, lastRead,
                   narrowed, oob>>

\* CheckEmpty placed after the kernel vector is built
CheckEmptyAfterKernel ==
    /\ pc = "checkEmpty"
    /\ kernel' = [i \in 1..kernelSize |-> 0]
    /\ IF Len(imageData) = 0 \/ Len(imageData[1]) = 0
       THEN Throw(EmptyMessage)
       ELSE pc' = "generateKernel" /\ what' = what
    /\ UNCHANGED <<args, sum, temp, result, y, x, returned, garbage,
                   inputReads, tempWritten, resultWritten, lastRead,
                   narrowed, oob>>

\* if (imageData.empty() || imageData[0].empty()) throw
CheckEmpty ==
    /\ pc = "checkEmpty"
    /\ IF Len(imageData) = 0 \/ Len(imageData[1]) = 0
       THEN Throw(EmptyMessage)
       ELSE pc' = "generateKernel" /\ what' = what
    /\ UNCHANGED <<args, kernel, sum, temp, result, y, x, returned, garbage,
                   inputReads, tempWritten, resultWritten, lastRead,
                   narrowed, oob>>

\* ------------------------------------------------------------------ kernel
center == kernelSize \div 2

\* std::exp(-(x * x) / (2.0 * sigma * sigma)) for x * x = xx, to the nearest
\* multiple of 1 / Scale.  sigma = 0.0: 0.0 / 0.0 is NaN, -xx / 0.0 is -inf
\* and exp(-inf) is 0.
ExpTable ==
    [s \in Sigmas |->
        CASE s = 0 -> [xx \in {0, 1, 4, 9} |-> IF xx = 0 THEN NaN ELSE 0]
          [] s = 1 -> (0 :> 20000 @@ 1 :> 2707 @@ 4 :> 7 @@ 9 :> 0)
          [] s = 3 -> (0 :> 20000 @@ 1 :> 16015 @@ 4 :> 8222 @@ 9 :> 2707)]

GaussianWeight(i) == ExpTable[sigma][(i - center) * (i - center)]

RECURSIVE SumTo(_, _)
\* sum += kernel[i], i = 0 .. n - 1
SumTo(k, n) == IF n = 0 THEN 0 ELSE FAdd(SumTo(k, n - 1), k[n])

\* for (i...) { kernel[i] = exp(...); sum += kernel[i]; }
GenerateKernel ==
    /\ pc = "generateKernel"
    /\ kernel' = [i \in 1..kernelSize |-> GaussianWeight(i - 1)]
    /\ sum' = SumTo(kernel', kernelSize)
    /\ pc' = "normalizeKernel"
    /\ UNCHANGED <<args, what, temp, result, y, x, returned, garbage,
                   inputReads, tempWritten, resultWritten, lastRead,
                   narrowed, oob>>

\* for (double& value : kernel) value /= sum;
NormalizeKernel ==
    /\ pc = "normalizeKernel"
    /\ kernel' = [i \in 1..kernelSize |-> FDiv(kernel[i], sum)]
    /\ pc' = "allocate"
    /\ UNCHANGED <<args, what, sum, temp, result, y, x, returned, garbage,
                   inputReads, tempWritten, resultWritten, lastRead,
                   narrowed, oob>>

\* Grid with its two sizes exchanged
GridTransposed(rows, cols) == [yy \in 1..cols |-> [xx \in 1..rows |-> [r |-> 0, g |-> 0, b |-> 0]]]

\* std::vector<std::vector<Pixel>>(rows, std::vector<Pixel>(cols))
Grid(rows, cols) == [yy \in 1..rows |-> [xx \in 1..cols |-> DefaultPixel]]

\* result and temp, height rows of width default pixels each
Allocate ==
    /\ pc = "allocate"
    /\ result' = Grid(height, width)
    /\ temp' = Grid(height, width)
    /\ y' = 0
    /\ x' = 0
    /\ pc' = "horizontal"
    /\ UNCHANGED <<args, what, kernel, sum, returned, garbage,
                   inputReads, tempWritten, resultWritten, lastRead,
                   narrowed, oob>>

\* ------------------------------------------------------------ convolution
Min(a, b) == IF b < a THEN b ELSE a
Max(a, b) == IF a < b THEN b ELSE a

\* SampleCoord wrapping around the axis instead of clamping
SampleCoordWrap(pos, k, axisLength) == (pos + k - (kernelSize \div 2)) % axisLength

\* std::max(0, std::min(axisLength - 1, pos + k - center))
SampleCoord(pos, k, axisLength) == Max(0, Min(axisLength - 1, pos + k - center))

\* the kernelSize coordinates sampled along an axis for output position pos
Samples(pos, axisLength) ==
    [k \in 1..kernelSize |-> SampleCoord(pos, k - 1, axisLength)]

\* imageData[yy][sx] names an element the grid holds
InStorage(yy, sx) ==
    /\ 0 <= yy /\ yy < Len(imageData)
    /\ 0 <= sx /\ sx < Len(imageData[yy + 1])

\* const Pixel& pixel = imageData[y][sampleX]; operator[] does not check its
\* index, so outside the storage the read yields whatever g is
ReadInput(yy, sx, g) == IF InStorage(yy, sx) THEN imageData[yy + 1][sx + 1] ELSE g

RECURSIVE Accumulate(_, _, _)
\* r += pixel.r * kernel[k], k = 0 .. n - 1, over the sampled pixels, from 0.0
Accumulate(pixels, ch, n) ==
    IF n = 0 THEN 0
    ELSE FAdd(Accumulate(pixels, ch, n - 1), FScale(pixels[n][ch], kernel[n]))

\* the three accumulators after the tap loop
Accumulators(pixels) ==
    [ch \in {"r", "g", "b"} |-> Accumulate(pixels, ch, kernelSize)]

\* std::min(255.0, d): (d < 255.0) ? d : 255.0, false when d is NaN
FMin255(d) == IF ~IsNaN(d) /\ d < 255 * Scale THEN d ELSE 255 * Scale

\* std::max(0.0, m): (0.0 < m) ? m : 0.0
FMax0(m) == IF ~IsNaN(m) /\ 0 < m THEN m ELSE 0

\* Saturate without the upper limit
SaturateLowOnly(d) == FMax0(d)

\* std::max(0.0, std::min(255.0, d)), the argument of the conversion
Saturate(d) == FMax0(FMin255(d))

\* static_cast<uint8_t>(d): truncation, 8 bits wide
ToUInt8(d) == (d \div Scale) % UInt8Range

\* the pixel stored for the accumulators acc
StoredPixel(acc) ==
    Pixel(ToUInt8(Saturate(acc["r"])), ToUInt8(Saturate(acc["g"])),
          ToUInt8(Saturate(acc["b"])))

\* the values handed to the three conversions
Narrowed(acc) == <<Saturate(acc["r"]), Saturate(acc["g"]), Saturate(acc["b"])>>

\* the pixels the horizontal taps of (xx, yy) read
HorizontalTaps(yy, xx, g) ==
    [k \in 1..kernelSize |-> ReadInput(yy, Samples(xx, width)[k], g)]

\* the pixels the vertical taps of (xx, yy) read from the grid t
VerticalTaps(t, yy, xx) ==
    [k \in 1..kernelSize |-> t[Samples(yy, height)[k] + 1][xx + 1]]

AllInStorage(yy, xx) ==
    \A k \in 1..kernelSize : InStorage(yy, Samples(xx, width)[k])

\* the positions of a height x width grid, as <<y, x>>
Cells == (0..(height - 1)) \X (0..(width - 1))

\* temp after the body of the horizontal loops ran for (xx, yy) on t
HorizontalStore(t, yy, xx, g) ==
    [t EXCEPT ![yy + 1][xx + 1] = StoredPixel(Accumulators(HorizontalTaps(yy, xx, g)))]

\* VerticalStore with one buffer for both passes: the store goes to temp too
VerticalStoreInPlace(bufs, yy, xx) ==
    LET p == StoredPixel(Accumulators(VerticalTaps(bufs.temp, yy, xx))) IN
    [temp |-> [bufs.temp EXCEPT ![yy + 1][xx + 1] = p],
     result |-> [bufs.result EXCEPT ![yy + 1][xx + 1] = p]]

\* temp and result after the body of the vertical loops ran for (xx, yy):
\* the taps come from temp, the store goes to result
VerticalStore(bufs, yy, xx) ==
    [temp |-> bufs.temp,
     result |-> [bufs.result EXCEPT ![yy + 1][xx + 1] =
                    StoredPixel(Accumulators(VerticalTaps(bufs.temp, yy, xx)))]]

\* Advance leaving the pass one row early
AdvanceRowEarly(after) ==
    IF x + 1 < width THEN x' = x + 1 /\ y' = y /\ pc' = pc
    ELSE IF y + 2 < height THEN x' = 0 /\ y' = y + 1 /\ pc' = pc
    ELSE x' = 0 /\ y' = 0 /\ pc' = after

\* ++x, and at the end of the row ++y; after the last row the pass is over
Advance(after) ==
    IF x + 1 < width THEN x' = x + 1 /\ y' = y /\ pc' = pc
    ELSE IF y + 1 < height THEN x' = 0 /\ y' = y + 1 /\ pc' = pc
    ELSE x' = 0 /\ y' = 0 /\ pc' = after

\* body of the horizontal loops for (x, y), reading g outside the grid
HorizontalStep(g) ==
    /\ temp' = HorizontalStore(temp, y, x, g)
    /\ tempWritten' = tempWritten \cup {<<y, x>>}
    /\ inputReads' = inputReads + kernelSize
    /\ lastRead' = [buf |-> "imageData", y |-> y, x |-> x,
                    samples |-> Samples(x, width)]
    /\ narrowed' = Narrowed(Accumulators(HorizontalTaps(y, x, g)))
    /\ Advance("vertical")

\* one iteration of the horizontal loops, every tap inside the grid
HorizontalPixel ==
    /\ pc = "horizontal"
    /\ AllInStorage(y, x)
    /\ HorizontalStep(garbage)
    /\ UNCHANGED <<args, what, kernel, sum, result, returned, garbage,
                   resultWritten, oob>>

\* one iteration of the horizontal loops with a tap outside the grid: the read
\* is undefined; the process faults, or the read yields an arbitrary pixel
HorizontalPixelOutside ==
    /\ pc = "horizontal"
    /\ ~AllInStorage(y, x)
    /\ oob' = TRUE
    /\ \/ /\ pc' = "crashed"
          /\ UNCHANGED <<temp, tempWritten, inputReads, lastRead, narrowed,
                         y, x, garbage>>
       \/ /\ IF oob THEN garbage' = garbage ELSE garbage' \in Palette
          /\ HorizontalStep(garbage')
    /\ UNCHANGED <<args, what, kernel, sum, result, returned, resultWritten>>

\* one iteration of the vertical loops
VerticalPixel ==
    /\ pc = "vertical"
    /\ LET bufs == VerticalStore([temp |-> temp, result |-> result], y, x) IN
        /\ temp' = bufs.temp
        /\ result' = bufs.result
    /\ resultWritten' = resultWritten \cup {<<y, x>>}
    /\ lastRead' = [buf |-> "temp", y |-> y, x |-> x,
                    samples |-> Samples(y, height)]
    /\ narrowed' = Narrowed(Accumulators(VerticalTaps(temp, y, x)))
    /\ Advance("return")
    /\ UNCHANGED <<args, what, kernel, sum, returned, garbage,
                   inputReads, tempWritten, oob>>

\* return result;
Return ==
    /\ pc = "return"
    /\ returned' = result
    /\ pc' = "returned"
    /\ UNCHANGED <<args, what, kernel, sum, temp, result, y, x, garbage,
                   inputReads, tempWritten, resultWritten, lastRead,
                   narrowed, oob>>

Next ==
    \/ CheckKernelSize
    \/ CheckDimensions
    \/ CheckEmpty
    \/ GenerateKernel
    \/ NormalizeKernel
    \/ Allocate
    \/ HorizontalPixel
    \/ HorizontalPixelOutside
    \/ VerticalPixel
    \/ Return

Spec == Init /\ [][Next]_vars

\* ------------------------------------------------ the passes in any order
\* The iterations of a pass taken in any order (a parallel for over the
\* pixels), the horizontal pass finished before the vertical pass starts.

\* odd kernelSize >= 3, width and height the grid's own, no row empty
ValidInput ==
    /\ kernelSize >= 3 /\ kernelSize % 2 = 1
    /\ width > 0 /\ height > 0
    /\ Len(imageData) = height
    /\ \A yy \in 1..Len(imageData) : Len(imageData[yy]) = width

InitAnyOrder == Init /\ ValidInput

\* the horizontal loop body for a pixel not yet done, whichever it is
AnyHorizontalPixel(yy, xx) ==
    /\ pc = "horizontal"
    /\ <<yy, xx>> \notin tempWritten
    /\ AllInStorage(yy, xx)
    /\ temp' = HorizontalStore(temp, yy, xx, garbage)
    /\ tempWritten' = tempWritten \cup {<<yy, xx>>}
    /\ inputReads' = inputReads + kernelSize
    /\ pc' = IF tempWritten' = Cells THEN "vertical" ELSE pc
    /\ UNCHANGED <<args, what, kernel, sum, result, y, x, returned, garbage,
                   resultWritten, lastRead, narrowed, oob>>

\* the vertical loop body for a pixel not yet done, whichever it is
AnyVerticalPixel(yy, xx) ==
    /\ pc = "vertical"
    /\ <<yy, xx>> \notin resultWritten
    /\ LET bufs == VerticalStore([temp |-> temp, result |-> result], yy, xx) IN
        /\ temp' = bufs.temp
        /\ result' = bufs.result
    /\ resultWritten' = resultWritten \cup {<<yy, xx>>}
    /\ pc' = IF resultWritten' = Cells THEN "return" ELSE pc
    /\ UNCHANGED <<args, what, kernel, sum, y, x, returned, garbage,
                   inputReads, tempWritten, lastRead, narrowed, oob>>

NextAnyOrder ==
    \/ CheckKernelSize
    \/ CheckDimensions
    \/ CheckEmpty
    \/ GenerateKernel
    \/ NormalizeKernel
    \/ Allocate
    \/ \E yy \in 0..(height - 1), xx \in 0..(width - 1) : AnyHorizontalPixel(yy, xx)
    \/ \E yy \in 0..(height - 1), xx \in 0..(width - 1) : AnyVerticalPixel(yy, xx)
    \/ Return

SpecAnyOrder == InitAnyOrder /\ [][NextAnyOrder]_vars

\* ------------------------------------------------------------- properties
KernelRule == kernelSize % 2 = 0 \/ kernelSize < 3
DimensionRule == width <= 0 \/ height <= 0
EmptyRule == imageData = <<>> \/ imageData[1] = <<>>

\* the validation checks are behind
Validated == pc \notin {"checkKernelSize", "checkDimensions", "checkEmpty"}

\* the failure a caller tells from the exception's message
FailureName(message) ==
    CASE message = KernelSizeMessage -> "InvalidKernelSize"
      [] message = DimensionsMessage -> "InvalidDimensions"
      [] message = EmptyMessage -> "EmptyImage"
      [] OTHER -> "none"

Channels == {"r", "g", "b"}

C2_NoWorkBeforeFailure ==
    pc = "thrown" =>
        /\ kernel = <<>> /\ sum = 0
        /\ temp = <<>> /\ result = <<>>
        /\ inputReads = 0 /\ lastRead = NoRead
        /\ tempWritten = {} /\ resultWritten = {}
        /\ narrowed = <<>>
        /\ returned = <<>>

\* the last of the three checks has thrown
C2_Witness ==
    /\ pc = "thrown"
    /\ what = EmptyMessage
    /\ Len(imageData) > 0

\* g has height rows of width entries, as imageData has
SameDimensions(g) ==
    /\ Len(g) = height /\ Len(g) = Len(imageData)
    /\ \A yy \in 1..Len(g) : Len(g[yy]) = width /\ Len(g[yy]) = Len(imageData[yy])

\* C3: on valid input temp and result, once allocated, and the grid returned
\* have height rows of width entries each, the dimensions of the input.
C3_DimensionsPreserved ==
    ValidInput =>
        /\ pc \in {"horizontal", "vertical", "return", "returned"} =>
               SameDimensions(temp) /\ SameDimensions(result)
        /\ pc = "returned" => SameDimensions(returned)

\* a grid that is not square came back
C3_Witness ==
    /\ ValidInput
    /\ pc = "returned"
    /\ width # height
    /\ Len(returned) = height

InRange(g) ==
    \A yy \in 1..Len(g) : \A xx \in 1..Len(g[yy]) : \A ch \in Channels :
        g[yy][xx][ch] \in 0..255

\* C4: on valid input every channel stored in temp, in result and in the grid
\* returned is in 0..255, and every double handed to static_cast<uint8_t> is a
\* number in [0.0, 255.0], taken after all kernelSize taps of its pixel.
C4_ChannelsInRange ==
    ValidInput =>
        /\ InRange(temp) /\ InRange(result) /\ InRange(returned)
        /\ \A n \in 1..Len(narrowed) :
               ~IsNaN(narrowed[n]) /\ 0 <= narrowed[n] /\ narrowed[n] <= 255 * Scale
        /\ narrowed # <<>> => Len(lastRead.samples) = kernelSize

\* sigma = 0.0 makes every weight NaN; the black image comes back saturated
C4_Witness ==
    /\ ValidInput
    /\ pc = "returned"
    /\ sigma = 0
    /\ imageData[1][1] = DefaultPixel
    /\ returned[1][1].r = 255

Uniform == \A yy \in 1..Len(imageData) : \A xx \in 1..Len(imageData[yy]) :
               imageData[yy][xx] = imageData[1][1]

Abs(n) == IF n < 0 THEN -n ELSE n

\* C5: blurring a solid-colour image with a valid kernelSize and a positive
\* sigma returns every pixel within one level (rounding) of that colour in
\* each channel.
C5_UniformImageUnchanged ==
    (pc = "returned" /\ ValidInput /\ sigma > 0 /\ Uniform) =>
        \A yy \in 1..height : \A xx \in 1..width : \A ch \in Channels :
            Abs(returned[yy][xx][ch] - imageData[1][1][ch]) <= 1

\* the direct 2D convolution: the sample at the edge-clamped position
\* (x + i - center, y + j - center) weighted by kernel[i] * kernel[j], all
\* kernelSize * kernelSize taps accumulated exactly, saturated and converted
\* once.  rows[j] is the exact sum over i for the row of tap j.
RECURSIVE DirectWhole(_, _)
DirectWhole(rows, n) ==
    IF n = 0 THEN 0 ELSE DirectWhole(rows, n - 1) + kernel[n] * (rows[n] \div Scale)

RECURSIVE DirectFraction(_, _)
DirectFraction(rows, n) ==
    IF n = 0 THEN 0 ELSE DirectFraction(rows, n - 1) + kernel[n] * (rows[n] % Scale)

DirectChannel(yy, xx, ch) ==
    LET rows == [j \in 1..kernelSize |->
                    Accumulate(HorizontalTaps(Samples(yy, height)[j], xx, garbage),
                               ch, kernelSize)]
    IN DirectWhole(rows, kernelSize) + (DirectFraction(rows, kernelSize) \div Scale)

Direct2D ==
    [yy \in 1..height |-> [xx \in 1..width |->
        [ch \in Channels |-> ToUInt8(FMax0(FMin255(DirectChannel(yy - 1, xx - 1, ch))))]]]

\* C6: on valid input with a positive sigma the grid returned by the two
\* passes equals the direct 2D convolution in every pixel and channel.
C6_SeparableEqualsDirect ==
    (pc = "returned" /\ ValidInput /\ sigma > 0) => returned = Direct2D

\* the two passes taken in row-major order, as functions of the arguments
RECURSIVE SequentialHorizontal(_, _)
SequentialHorizontal(t, n) ==
    IF n = 0 THEN t
    ELSE LET before == SequentialHorizontal(t, n - 1) IN
         HorizontalStore(before, (n - 1) \div width, (n - 1) % width, garbage)

RECURSIVE SequentialVertical(_, _)
SequentialVertical(bufs, n) ==
    IF n = 0 THEN bufs
    ELSE LET before == SequentialVertical(bufs, n - 1) IN
         VerticalStore(before, (n - 1) \div width, (n - 1) % width)

SequentialTemp == SequentialHorizontal(Grid(height, width), width * height)

SequentialResult ==
    LET t == SequentialTemp IN
    SequentialVertical([temp |-> t, result |-> Grid(height, width)],
                       width * height).result

\* C7: with the pixels of each pass computed in any order, the intermediate
\* grid the vertical pass starts from is the one the row-major order builds,
\* and the grid returned is the one the row-major order returns.
C7_AnyOrderSameOutput ==
    /\ (pc = "vertical" /\ resultWritten = {}) => temp = SequentialTemp
    /\ pc = "returned" => returned = SequentialResult

\* a run that stored the last pixel of the vertical pass before any other
C7_Witness ==
    /\ pc = "vertical"
    /\ width = 2 /\ height = 2
    /\ sigma > 0
    /\ imageData[1][1] # imageData[2][2]
    /\ resultWritten = {<<1, 1>>}
    /\ result[2][2] # DefaultPixel

\* temp as the horizontal pass leaves it
HorizontalResult ==
    [yy \in 1..height |-> [xx \in 1..width |->
        StoredPixel(Accumulators(HorizontalTaps(yy - 1, xx - 1, garbage)))]]

\* C8: on valid input, from the first step of the vertical pass on every cell
\* of temp has been stored by the horizontal pass and holds its horizontal
\* result, every cell the vertical pass reads is such a cell, and the input
\* grid is read no more.
C8_HorizontalBeforeVertical ==
    ValidInput =>
        /\ pc \in {"vertical", "return", "returned"} =>
               /\ tempWritten = Cells
               /\ temp = HorizontalResult
               /\ inputReads = width * height * kernelSize
        /\ lastRead.buf = "temp" =>
               \A k \in 1..Len(lastRead.samples) :
                   <<lastRead.samples[k], lastRead.x>> \in tempWritten
        /\ resultWritten # {} => tempWritten = Cells

\* the vertical pass is under way over a grid of two rows or more
C8_Witness ==
    /\ ValidInput
    /\ pc = "vertical"
    /\ lastRead.buf = "temp"
    /\ height >= 2
    /\ imageData[1][1] # DefaultPixel

\* the coordinate tap k of output position pos is to sample on an axis
ClampedCoord(pos, k, axisLength) ==
    LET c == pos + k - kernelSize \div 2 IN
    IF c < 0 THEN 0 ELSE IF c > axisLength - 1 THEN axisLength - 1 ELSE c

\* C9: in both passes tap k of output position pos samples pos + k - center,
\* replaced by 0 when negative and by axisLength - 1 when beyond it, so a
\* coordinate in 0 .. axisLength - 1, for every kernelSize.
C9_EdgeClamping ==
    lastRead.buf # "none" =>
        LET pos == IF lastRead.buf = "imageData" THEN lastRead.x ELSE lastRead.y
            axisLength == IF lastRead.buf = "imageData" THEN width ELSE height
        IN /\ Len(lastRead.samples) = kernelSize
           /\ \A k \in 1..kernelSize :
                  /\ lastRead.samples[k] = ClampedCoord(pos, k - 1, axisLength)
                  /\ lastRead.samples[k] \in 0..(axisLength - 1)

\* a kernel of 5 taps over an axis of 2, sampled at its far end
C9_Witness ==
    /\ lastRead.buf = "temp"
    /\ kernelSize = 5
    /\ height = 2
    /\ lastRead.y = 1
    /\ lastRead.samples = <<0, 0, 1, 1, 1>>

\* C10: a call that passed the three checks never reads imageData outside the
\* rows and columns it holds.
C10_ReadsInsideGrid == Validated /\ pc # "thrown" => ~oob
====
